---- MODULE Spec2Model ----
(***************************************************************************)
(* Farm Management System (backend/server.py): the growth clock            *)
(* (calculate_growth_status), the plant-instance handlers, the inventory   *)
(* ledger (update_inventory) and task completion (complete_schedule_task). *)
(*                                                                         *)
(* The data store (supabase) is a shared external service: every           *)
(* `.execute()` of a handler is one atomic step on it, and the steps of    *)
(* requests served by different workers interleave, since no handler       *)
(* opens a transaction or takes a lock.                                    *)
(*                                                                         *)
(* Python's None is <<>> and a present value v is <<v>>.  Calendar dates   *)
(* are day numbers; day 0 is 2024-01-30, so the days of the model cross a  *)
(* month boundary when they are written as "YYYY-MM-DD" and parsed back.   *)
(* Quantities (floats in the code) are integers.                           *)
(***************************************************************************)
EXTENDS Integers, Sequences, FiniteSets, TLC

VARIABLES
    today,                  \* date.today()
    growth_cycles,          \* table growth_cycles: id -> row
    plants,                 \* table plants: id -> row
    plots,                  \* table plots: the ids that exist
    plant_instances,        \* table plant_instances: sequence of rows, id = index
    growth_status,          \* the last return value of calculate_growth_status
    read,                   \* the last response of a plant-instance handler
    users,                  \* table users: id -> row
    farmer_assignments,     \* table farmer_assignments: set of <<farmer_id, plot_id>>
    inventory,              \* table inventory: sequence of rows, id = index
    inventory_transactions, \* table inventory_transactions: sequence of rows
    created_qty,            \* history: the quantity each inventory row was inserted with
    schedules,              \* table schedules: id -> row
    req,                    \* per worker: the request it serves, or served last
    calls                   \* number of requests started so far

vars == <<today, growth_cycles, plants, plots, plant_instances, growth_status, read,
          users, farmer_assignments, inventory, inventory_transactions, created_qty,
          schedules, req, calls>>

growthVars == <<today, growth_cycles, plants, plots, plant_instances, growth_status, read>>
ledgerVars == <<users, farmer_assignments, inventory, inventory_transactions,
                created_qty, schedules, req, calls>>

None == <<>>
Some(x) == <<x>>

----------------------------------------------------------------------------
(* Bounds *)

MaxDur == 2          \* stage durations and total_growth_days of the growth clock: 0..MaxDur+1
MaxDay == 7          \* reference and planting dates of the growth clock: 0..MaxDay
MaxInstDur == 1      \* stage durations in the plant-instance specification
MaxTick == 1         \* days the clock advances in the plant-instance specification
MaxPlanted == 1      \* planting dates given to create_plant_instance: 0..MaxPlanted
MaxInstances == 1    \* plant instances created
MaxQty == 1          \* quantity of an item at creation, quantity_required of a task: 0..MaxQty
MaxDelta == 1        \* the quantity argument of update_inventory: -MaxDelta..MaxDelta
MaxCalls == 2        \* requests served in one behaviour
MaxStockItems == 2   \* inventory items of the low-stock specification
MaxStockQty == 2     \* their quantities and reorder levels: 0..MaxStockQty

----------------------------------------------------------------------------
(* Dates: str(date) gives "YYYY-MM-DD", strptime(s, "%Y-%m-%d") reads it back *)

MonthLen == <<31, 29, 31, 30, 31, 30, 31, 31, 30, 31, 30, 31>>

RECURSIVE YMDFrom(_, _)
YMDFrom(m, k) ==
    IF m < 12 /\ k >= MonthLen[m] THEN YMDFrom(m + 1, k - MonthLen[m])
    ELSE <<2024, m, k + 1>>

\* str(d) of a datetime.date; day 0 is 2024-01-30, the 30th day of the year
DateStr(d) == YMDFrom(1, d + 29)

RECURSIVE DaysBefore(_)
DaysBefore(m) == IF m = 1 THEN 0 ELSE MonthLen[m - 1] + DaysBefore(m - 1)

\* datetime.strptime(s, "%Y-%m-%d").date()
ParseDate(s) == DaysBefore(s[2]) + (s[3] - 1) - 29

----------------------------------------------------------------------------
(* Growth clock *)

Stage_strict(days_since, cycle) ==
    IF days_since < cycle.germination_days THEN "germination"
    ELSE IF days_since < cycle.germination_days + cycle.vegetative_days THEN "vegetative"
    ELSE IF days_since < cycle.germination_days + cycle.vegetative_days
                           + cycle.flowering_days THEN "flowering"
    ELSE "fruiting"

Stage_noncumulative(days_since, cycle) ==
    IF days_since <= cycle.germination_days THEN "germination"
    ELSE IF days_since <= cycle.vegetative_days THEN "vegetative"
    ELSE IF days_since <= cycle.vegetative_days + cycle.flowering_days THEN "flowering"
    ELSE "fruiting"

Stage_swapped(days_since, cycle) ==
    IF days_since <= cycle.germination_days THEN "vegetative"
    ELSE IF days_since <= cycle.germination_days + cycle.vegetative_days THEN "germination"
    ELSE IF days_since <= cycle.germination_days + cycle.vegetative_days
                            + cycle.flowering_days THEN "flowering"
    ELSE "fruiting"

\* the if/elif cascade of calculate_growth_status
Stage(days_since, cycle) ==
    IF days_since <= cycle.germination_days THEN "germination"
    ELSE IF days_since <= cycle.germination_days + cycle.vegetative_days THEN "vegetative"
    ELSE IF days_since <= cycle.germination_days + cycle.vegetative_days
                            + cycle.flowering_days THEN "flowering"
    ELSE "fruiting"

NoStatus == [stage |-> None, days_since |-> None, expected_harvest |-> None]

calculate_growth_status_stagesum(planted_on, growth_cycle_id) ==
    IF growth_cycle_id = None THEN NoStatus
    ELSE IF growth_cycle_id[1] \notin DOMAIN growth_cycles THEN NoStatus
    ELSE LET cycle == growth_cycles[growth_cycle_id[1]]
             days_since == today - planted_on
         IN  [stage |-> Some(Stage(days_since, cycle)),
              days_since |-> Some(days_since),
              expected_harvest |-> Some(planted_on + cycle.germination_days
                                            + cycle.vegetative_days + cycle.flowering_days
                                            + cycle.fruiting_days)]

calculate_growth_status_partial(planted_on, growth_cycle_id) ==
    IF growth_cycle_id = None THEN NoStatus
    ELSE LET days_since == today - planted_on
         IN  IF growth_cycle_id[1] \notin DOMAIN growth_cycles
             THEN [NoStatus EXCEPT !.days_since = Some(days_since)]
             ELSE LET cycle == growth_cycles[growth_cycle_id[1]]
                  IN  [stage |-> Some(Stage(days_since, cycle)),
                       days_since |-> Some(days_since),
                       expected_harvest |-> Some(planted_on + cycle.total_growth_days)]

calculate_growth_status(planted_on, growth_cycle_id) ==
    IF growth_cycle_id = None THEN NoStatus
    ELSE IF growth_cycle_id[1] \notin DOMAIN growth_cycles THEN NoStatus
    ELSE LET cycle == growth_cycles[growth_cycle_id[1]]
             days_since == today - planted_on
         IN  [stage |-> Some(Stage(days_since, cycle)),
              days_since |-> Some(days_since),
              expected_harvest |-> Some(planted_on + cycle.total_growth_days)]

\* rows of growth_cycles (GrowthCycleCreate), durations in 0..n, total in 0..n+1
CycleRows(n) ==
    [germination_days : 0..n, vegetative_days : 0..n, flowering_days : 0..n,
     fruiting_days : {0}, total_growth_days : 0..(n + 1)]

\* rows of plant_requirements (PlantRequirementCreate): requirement 1 sets only
\* water_min_ml, requirement 2 only go_krupa_ml_weekly, requirement 3 only
\* panchagavya_l_per_month.  No operation of the model reads or writes the table.
RequirementRows ==
    LET Unset == [water_min_ml |-> None, go_krupa_ml_weekly |-> None,
                  panchagavya_l_per_month |-> None]
    IN  (1 :> [Unset EXCEPT !.water_min_ml = Some(1)])
            @@ (2 :> [Unset EXCEPT !.go_krupa_ml_weekly = Some(1)])
            @@ (3 :> [Unset EXCEPT !.panchagavya_l_per_month = Some(1)])

\* plant 1 has a growth cycle, plant 2 has none, plant 3 names a cycle that is not
\* stored; plant k has requirement k
PlantRows ==
    (1 :> [growth_cycle_id |-> Some(1), requirement_id |-> Some(1)])
        @@ (2 :> [growth_cycle_id |-> None, requirement_id |-> Some(2)])
        @@ (3 :> [growth_cycle_id |-> Some(2), requirement_id |-> Some(3)])

\* one application of calculate_growth_status; the arguments and the reference date
\* are kept with the result
CalcGrowthStatus(planted_on, growth_cycle_id) ==
    /\ growth_status' = [planted_on |-> planted_on, growth_cycle_id |-> growth_cycle_id,
                         on |-> today,
                         result |-> calculate_growth_status(planted_on, growth_cycle_id)]
    /\ UNCHANGED <<today, growth_cycles, plants, plots, plant_instances, read>>
    /\ UNCHANGED ledgerVars

NoCall == [planted_on |-> 0, growth_cycle_id |-> None, on |-> 0, result |-> NoStatus]

----------------------------------------------------------------------------
(* Users and roles (get_current_user, require_role) *)

UserRows ==
    ("owner1" :> [role |-> "owner"]) @@ ("farmer1" :> [role |-> "farmer"])
        @@ ("sub1" :> [role |-> "subscriber"])

\* the role_checker of require_role(allowed_roles): TRUE when the request goes on
require_role(allowed_roles, user) == users[user].role \in allowed_roles

----------------------------------------------------------------------------
(* Plant instances *)

NoRead == [op |-> "none", code |-> 0, on |-> 0, body |-> <<>>]

\* a response, with the date it was made on
Response(op, code, body) == [op |-> op, code |-> code, on |-> today, body |-> body]

\* str(expected_harvest) if expected_harvest else None
HarvestStr(expected_harvest) ==
    IF expected_harvest = None THEN None ELSE Some(DateStr(expected_harvest[1]))

\* the row create_plant_instance inserts, with the id the store gives it
NewInstance(id, plot_id, plant_id, planted_on) ==
    LET st == calculate_growth_status(planted_on, plants[plant_id].growth_cycle_id)
    IN  [id |-> id, plot_id |-> plot_id, plant_id |-> plant_id,
         planted_on |-> DateStr(planted_on), count |-> 1, status |-> "active",
         current_growth_stage |-> st.stage,
         days_since_planting |-> st.days_since,
         expected_harvest_date |-> HarvestStr(st.expected_harvest)]

\* The tables create_plant_instance reads (plots, plants, growth_cycles) are not
\* changed by any operation of the model, so its selects and its insert are one step.
create_plant_instance(user, plot_id, plant_id, planted_on) ==
    /\ Len(plant_instances) < MaxInstances
    /\ IF ~require_role({"owner"}, user)
          THEN /\ read' = Response("create_plant_instance", 403, <<>>)
               /\ UNCHANGED plant_instances
       ELSE IF plot_id \notin plots \/ plant_id \notin DOMAIN plants
          THEN /\ read' = Response("create_plant_instance", 404, <<>>)
               /\ UNCHANGED plant_instances
       ELSE LET row == NewInstance(Len(plant_instances) + 1, plot_id, plant_id, planted_on)
            IN  /\ plant_instances' = Append(plant_instances, row)
                /\ read' = Response("create_plant_instance", 200, <<row>>)
    /\ UNCHANGED <<today, growth_cycles, plants, plots, growth_status>>
    /\ UNCHANGED ledgerVars

\* the body of the for loop of list_plant_instances, for one row
Recomputed(instance) ==
    LET planted_date == ParseDate(instance.planted_on)
    IN  IF instance.plant_id \in DOMAIN plants
           /\ plants[instance.plant_id].growth_cycle_id # None
        THEN LET st == calculate_growth_status(planted_date,
                                               plants[instance.plant_id].growth_cycle_id)
             IN  [instance EXCEPT !.current_growth_stage = st.stage,
                                  !.days_since_planting = st.days_since,
                                  !.expected_harvest_date = HarvestStr(st.expected_harvest)]
        ELSE instance

list_plant_instances(user, plot_id) ==
    LET Keep(r) == plot_id = None \/ r.plot_id = plot_id[1]
        data == SelectSeq(plant_instances, Keep)
    IN  /\ read' = Response("list_plant_instances", 200,
                            [i \in 1..Len(data) |-> Recomputed(data[i])])
        /\ UNCHANGED <<today, growth_cycles, plants, plots, plant_instances, growth_status>>
        /\ UNCHANGED ledgerVars

get_plant_instance(user, instance_id) ==
    /\ IF instance_id \notin 1..Len(plant_instances)
          THEN read' = Response("get_plant_instance", 404, <<>>)
          ELSE read' = Response("get_plant_instance", 200,
                                <<plant_instances[instance_id]>>)
    /\ UNCHANGED <<today, growth_cycles, plants, plots, plant_instances, growth_status>>
    /\ UNCHANGED ledgerVars

\* midnight passes: date.today() advances
Tick ==
    /\ today < MaxTick
    /\ today' = today + 1
    /\ UNCHANGED <<growth_cycles, plants, plots, plant_instances, growth_status, read>>
    /\ UNCHANGED ledgerVars

----------------------------------------------------------------------------
(* Specifications of the growth clock and of the plant-instance handlers *)

\* no request is being served and the ledger tables are empty
LedgerEmpty ==
    /\ users = UserRows
    /\ farmer_assignments = {}
    /\ inventory = <<>>
    /\ inventory_transactions = <<>>
    /\ created_qty = <<>>
    /\ schedules = <<>>
    /\ req = <<>>
    /\ calls = 0

\* the growth clock alone: the cycle and the reference date are drawn here, the
\* planting date and the cycle id by the action
InitClock ==
    /\ today \in 0..MaxDay
    /\ growth_cycles \in {1 :> c : c \in CycleRows(MaxDur)}
    /\ plants = PlantRows
    /\ plots = {1, 2}
    /\ plant_instances = <<>>
    /\ growth_status = NoCall
    /\ read = NoRead
    /\ LedgerEmpty

NextClock ==
    \E planted_on \in 0..MaxDay, growth_cycle_id \in {None, Some(1), Some(2)} :
        CalcGrowthStatus(planted_on, growth_cycle_id)

SpecClock == InitClock /\ [][NextClock]_vars

InitInstances ==
    /\ today = 0
    /\ growth_cycles \in {1 :> c : c \in CycleRows(MaxInstDur)}
    /\ plants = PlantRows
    /\ plots = {1}
    /\ plant_instances = <<>>
    /\ growth_status = NoCall
    /\ read = NoRead
    /\ LedgerEmpty

NextInstances ==
    \/ Tick
    \/ \E user \in DOMAIN UserRows, plot_id \in {1, 2}, plant_id \in {1, 2, 3, 4},
          planted_on \in 0..MaxPlanted :
           create_plant_instance(user, plot_id, plant_id, planted_on)
    \/ \E user \in DOMAIN UserRows, plot_id \in {None, Some(1), Some(2)} :
           list_plant_instances(user, plot_id)
    \/ \E user \in DOMAIN UserRows, instance_id \in 1..(MaxInstances + 1) :
           get_plant_instance(user, instance_id)

SpecInstances == InitInstances /\ [][NextInstances]_vars

----------------------------------------------------------------------------
(* Requests.  A worker serves one request at a time; the record of its last  *)
(* request stays until it starts the next one.                               *)

Workers == {"w1", "w2"}

Units == {"ml", "l"}

\* the ids the store gives to inventory rows, and the ids of the schedule rows
ItemIds == {1}
TaskIds == {1}

Idle ==
    [op |-> "none", pc |-> "idle", user |-> "owner1", id |-> 0, quantity |-> 0,
     text |-> None, current_qty |-> 0, instance_id |-> 0, plot_id |-> 0,
     code |-> 0, detail |-> "", new_quantity |-> None, n |-> 0, with |-> {}]

Free(w) == req[w].pc \in {"idle", "done"}

Running(w) == ~Free(w)

\* Worker w starts the request rec, the n-th of the behaviour: `with` names the
\* requests in progress at that moment (the ones it runs concurrently with).
\* The workers are interchangeable, so the first request goes to w1.
Start(w, rec) ==
    /\ Free(w)
    /\ w = "w1" \/ req["w1"].pc # "idle"
    /\ calls < MaxCalls
    /\ calls' = calls + 1
    /\ req' = [u \in Workers |->
                 IF u = w THEN [rec EXCEPT !.n = calls + 1,
                                           !.with = {v \in Workers \ {w} : Running(v)}]
                 ELSE [req[u] EXCEPT !.with = @ \ {w}]]

\* raise HTTPException(status_code, detail) or return: the request is over
Finish(rec, code, detail) == [rec EXCEPT !.pc = "done", !.code = code, !.detail = detail]

Concurrent(a, b) == b \in req[a].with \/ a \in req[b].with

----------------------------------------------------------------------------
(* Inventory ledger *)

\* create_inventory: one insert.  Items are created with quantity >= 0.
create_inventory(user, unit, quantity, reorder_level) ==
    /\ Len(inventory) + 1 \in ItemIds
    /\ require_role({"owner"}, user)
    /\ inventory' = Append(inventory,
                           [id |-> Len(inventory) + 1, unit |-> unit,
                            quantity |-> quantity, reorder_level |-> reorder_level])
    /\ created_qty' = Append(created_qty, quantity)
    /\ UNCHANGED <<users, farmer_assignments, inventory_transactions, schedules, req, calls>>
    /\ UNCHANGED growthVars

NewQty(current_qty, quantity) == current_qty + quantity

Insufficient_current(current_qty, quantity) == current_qty < 0

\* if new_qty < 0
Insufficient(current_qty, quantity) == NewQty(current_qty, quantity) < 0

TransactionRow_total(inventory_id, quantity, reason, current_qty) ==
    [inventory_id |-> inventory_id, change |-> NewQty(current_qty, quantity),
     reason |-> reason, related_schedule |-> None]

\* the row update_inventory inserts into inventory_transactions
TransactionRow(inventory_id, quantity, reason, current_qty) ==
    [inventory_id |-> inventory_id, change |-> quantity, reason |-> reason,
     related_schedule |-> None]

\* update_inventory, lines 831-840: the role check, the select, and the check of
\* the new quantity computed from the row that was read
update_inventory_select(w, user, inventory_id, quantity, reason) ==
    LET rec == [Idle EXCEPT !.op = "update_inventory", !.user = user,
                            !.id = inventory_id, !.quantity = quantity,
                            !.text = Some(reason)]
        found == inventory_id \in 1..Len(inventory)
        current_qty == inventory[inventory_id].quantity
    IN  /\ Start(w,
                 IF ~require_role({"owner"}, user)
                    THEN Finish(rec, 403, "Access denied")
                 ELSE IF ~found
                    THEN Finish(rec, 404, "Inventory item not found")
                 ELSE IF Insufficient(current_qty, quantity)
                    THEN Finish([rec EXCEPT !.current_qty = current_qty],
                                400, "Insufficient inventory")
                 ELSE [rec EXCEPT !.pc = "update", !.current_qty = current_qty])
        /\ UNCHANGED <<users, farmer_assignments, inventory, inventory_transactions,
                       schedules>>
        /\ UNCHANGED created_qty
        /\ UNCHANGED growthVars

\* line 842: update({"quantity": new_qty}).eq("id", inventory_id)
update_inventory_update(w) ==
    /\ req[w].op = "update_inventory" /\ req[w].pc = "update"
    /\ inventory' = [inventory EXCEPT ![req[w].id].quantity =
                                          NewQty(req[w].current_qty, req[w].quantity)]
    /\ req' = [req EXCEPT ![w].pc = "insert"]
    /\ UNCHANGED <<users, farmer_assignments, inventory_transactions, schedules, calls>>
    /\ UNCHANGED created_qty
    /\ UNCHANGED growthVars

\* lines 844-850: the insert into inventory_transactions and the response
update_inventory_insert(w) ==
    /\ req[w].op = "update_inventory" /\ req[w].pc = "insert"
    /\ inventory_transactions' =
           Append(inventory_transactions,
                  TransactionRow(req[w].id, req[w].quantity, req[w].text[1],
                                 req[w].current_qty))
    /\ req' = [req EXCEPT ![w] =
                 Finish([@ EXCEPT !.new_quantity =
                                      Some(NewQty(req[w].current_qty, req[w].quantity))],
                        200, "Inventory updated")]
    /\ UNCHANGED <<users, farmer_assignments, inventory, schedules, calls>>
    /\ UNCHANGED created_qty
    /\ UNCHANGED growthVars

----------------------------------------------------------------------------
(* Task completion *)

\* rows of schedules: quantity_required and unit are both null or both set
TaskRows ==
    {[plant_instance_id |-> i, task_type |-> "water", status |-> "pending",
      quantity_required |-> q[1], unit |-> q[2], completion_notes |-> None] :
        i \in {1, 2},
        q \in {<<None, None>>} \cup {<<Some(n), Some("ml")>> : n \in 1..MaxQty}}

\* complete_schedule_task, lines 916-921: the select of the task
complete_schedule_task_select(w, user, task_id, notes) ==
    LET rec == [Idle EXCEPT !.op = "complete_schedule_task", !.user = user,
                            !.id = task_id, !.text = notes]
    IN  /\ Start(w,
                 IF task_id \notin DOMAIN schedules
                    THEN Finish(rec, 404, "Task not found")
                 ELSE IF users[user].role = "farmer"
                    THEN [rec EXCEPT !.pc = "instance",
                                     !.instance_id = schedules[task_id].plant_instance_id]
                 ELSE [rec EXCEPT !.pc = "update"])
        /\ UNCHANGED <<users, farmer_assignments, inventory, inventory_transactions,
                       schedules>>
        /\ UNCHANGED created_qty
        /\ UNCHANGED growthVars

\* lines 923-926: the select of the task's plant instance
complete_schedule_task_instance(w) ==
    /\ req[w].op = "complete_schedule_task" /\ req[w].pc = "instance"
    /\ req' = [req EXCEPT ![w] =
                 IF req[w].instance_id \notin 1..Len(plant_instances)
                    THEN Finish(@, 404, "Plant instance not found")
                 ELSE [@ EXCEPT !.pc = "assignment",
                                !.plot_id = plant_instances[req[w].instance_id].plot_id]]
    /\ UNCHANGED <<users, farmer_assignments, inventory, inventory_transactions,
                   schedules, calls>>
    /\ UNCHANGED created_qty
    /\ UNCHANGED growthVars

Assigned_anyplot(farmer_id, plot_id) ==
    \E assignment \in farmer_assignments : assignment[1] = farmer_id

\* the select on farmer_assignments by farmer_id and plot_id returns a row
Assigned(farmer_id, plot_id) == <<farmer_id, plot_id>> \in farmer_assignments

\* lines 927-929: the select of the farmer's assignment to the plot
complete_schedule_task_assignment(w) ==
    /\ req[w].op = "complete_schedule_task" /\ req[w].pc = "assignment"
    /\ req' = [req EXCEPT ![w] =
                 IF ~Assigned(req[w].user, req[w].plot_id)
                    THEN Finish(@, 403, "Not authorized to complete this task")
                 ELSE [@ EXCEPT !.pc = "update"]]
    /\ UNCHANGED <<users, farmer_assignments, inventory, inventory_transactions,
                   schedules, calls>>
    /\ UNCHANGED created_qty
    /\ UNCHANGED growthVars

\* the columns line 931 writes
Completed(task, notes) ==
    [task EXCEPT !.status = "completed", !.completion_notes = notes]

\* lines 931-932: the update of the task and the response
complete_schedule_task_update(w) ==
    /\ req[w].op = "complete_schedule_task" /\ req[w].pc = "update"
    /\ schedules' = [schedules EXCEPT ![req[w].id] = Completed(@, req[w].text)]
    /\ req' = [req EXCEPT ![w] = Finish(@, 200, "Task completed")]
    /\ UNCHANGED <<users, farmer_assignments, inventory, inventory_transactions, calls>>
    /\ UNCHANGED created_qty
    /\ UNCHANGED growthVars

----------------------------------------------------------------------------
(* The inventory ledger and task completion, served by concurrent workers *)

Init ==
    /\ today = 0
    /\ growth_cycles = 1 :> [germination_days |-> 1, vegetative_days |-> 1,
                             flowering_days |-> 1, fruiting_days |-> 1,
                             total_growth_days |-> 4]
    /\ plants = PlantRows
    /\ plots = {1, 2}
    /\ plant_instances = <<NewInstance(1, 1, 1, 0), NewInstance(2, 2, 2, 0)>>
    /\ growth_status = NoCall
    /\ read = NoRead
    /\ users = UserRows
    /\ farmer_assignments = {<<"farmer1", 1>>}
    /\ inventory = <<>>
    /\ inventory_transactions = <<>>
    /\ created_qty = <<>>
    /\ schedules \in [TaskIds -> TaskRows]
    /\ req = [w \in Workers |-> Idle]
    /\ calls = 0

Next ==
    \/ \E user \in {"owner1"}, unit \in Units, quantity \in 0..MaxQty,
          reorder_level \in {0} :
           create_inventory(user, unit, quantity, reorder_level)
    \/ \E w \in Workers, user \in {"owner1", "farmer1"}, inventory_id \in ItemIds,
          quantity \in (-MaxDelta)..MaxDelta, reason \in {"manual"} :
           update_inventory_select(w, user, inventory_id, quantity, reason)
    \/ \E w \in Workers : update_inventory_update(w)
    \/ \E w \in Workers : update_inventory_insert(w)
    \/ \E w \in Workers, user \in DOMAIN UserRows, task_id \in TaskIds \cup {2},
          notes \in {None, Some("ok")} :
           complete_schedule_task_select(w, user, task_id, notes)
    \/ \E w \in Workers : complete_schedule_task_instance(w)
    \/ \E w \in Workers : complete_schedule_task_assignment(w)
    \/ \E w \in Workers : complete_schedule_task_update(w)

Spec == Init /\ [][Next]_vars

----------------------------------------------------------------------------
(* The low-stock query *)

LowStock_strict(data) ==
    LET Low(item) == item.quantity < item.reorder_level
    IN  SelectSeq(data, Low)

\* [item for item in response.data if item["quantity"] <= item["reorder_level"]]
LowStock(data) ==
    LET Low(item) == item.quantity <= item.reorder_level
    IN  SelectSeq(data, Low)

\* get_low_stock: the role check, one select, and the filter
get_low_stock(user) ==
    /\ IF ~require_role({"owner"}, user)
          THEN read' = Response("get_low_stock", 403, <<>>)
          ELSE read' = Response("get_low_stock", 200, LowStock(inventory))
    /\ UNCHANGED <<today, growth_cycles, plants, plots, plant_instances, growth_status>>
    /\ UNCHANGED ledgerVars

\* the inventory tables of at most n rows (InventoryCreate) with quantities and
\* reorder levels in 0..q; the id of a row is its index
InventoryTables(n, q) ==
    UNION {{[i \in 1..k |-> [id |-> i, unit |-> f[i][1], quantity |-> f[i][2],
                             reorder_level |-> f[i][3]]] :
               f \in [1..k -> Units \X (0..q) \X (0..q)]} : k \in 0..n}

InitStock ==
    /\ today = 0
    /\ growth_cycles = <<>>
    /\ plants = PlantRows
    /\ plots = {1}
    /\ plant_instances = <<>>
    /\ growth_status = NoCall
    /\ read = NoRead
    /\ users = UserRows
    /\ farmer_assignments = {}
    /\ inventory \in InventoryTables(MaxStockItems, MaxStockQty)
    /\ inventory_transactions = <<>>
    /\ created_qty = [i \in 1..Len(inventory) |-> inventory[i].quantity]
    /\ schedules = <<>>
    /\ req = <<>>
    /\ calls = 0

NextStock == \E user \in DOMAIN UserRows : get_low_stock(user)

SpecStock == InitStock /\ [][NextStock]_vars

----------------------------------------------------------------------------
(* User accounts: register, create_farmer, create_subscriber.  In this part   *)
(* the users table is a sequence of rows, the id of a row is its index, and a *)
(* name is a sequence of characters.                                          *)

\* the names given to create_farmer and create_subscriber
Names == {<<"A", "a">>, <<"a", " ", "a">>, <<"b">>}

\* an e-mail address: local part and domain
Email(local, domain) == [local |-> local, domain |-> domain]

\* the addresses given explicitly (EmailStr)
Emails == {Email(<<"a", "a">>, "farm.com"), Email(<<"b">>, "mail.org")}

\* str.lower() of one character
LowerChar(c) == IF c = "A" THEN "a" ELSE IF c = "B" THEN "b" ELSE c

\* name.lower().replace(" ", "")
RECURSIVE BaseEmail(_)
BaseEmail(name) ==
    IF name = <<>> THEN <<>>
    ELSE IF Head(name) = " " THEN BaseEmail(Tail(name))
    ELSE <<LowerChar(Head(name))>> \o BaseEmail(Tail(name))

\* lines 361-366 and 421-426: the e-mail given, or f"{base_email}@farm.com"
AccountEmail(name, email) ==
    IF email # None THEN email[1] ELSE Email(BaseEmail(name), "farm.com")

\* select("*").eq("email", email) returns a row
Existing(email) == \E i \in 1..Len(users) : users[i].email = email

\* the request record of a call that creates a user; new_user is the row to insert
AccountRequest(op, user, new_user) ==
    [new_user |-> new_user] @@ [Idle EXCEPT !.op = op, !.user = user]

\* register, lines 277-279: the select by e-mail; the endpoint has no role check
register_select(w, email, name, role) ==
    LET rec == AccountRequest("register", 0,
                              [email |-> email, name |-> name, role |-> role])
    IN  /\ Start(w,
                 IF Existing(email) THEN Finish(rec, 400, "Email already registered")
                 ELSE [rec EXCEPT !.pc = "insert"])
        /\ UNCHANGED <<users, farmer_assignments, inventory, inventory_transactions,
                       created_qty, schedules>>
        /\ UNCHANGED growthVars

\* create_farmer (role "farmer") and create_subscriber (role "subscriber"): the
\* role check, the e-mail, and the select by e-mail
create_account_select(w, op, role, user, name, email) ==
    LET address == AccountEmail(name, email)
        rec == AccountRequest(op, user,
                              [email |-> address, name |-> Some(name), role |-> role])
    IN  /\ Start(w,
                 IF ~require_role({"owner"}, user)
                    THEN Finish(rec, 403, "Access denied")
                 ELSE IF Existing(address)
                    THEN Finish(rec, 400, "Email {email} already registered")
                 ELSE [rec EXCEPT !.pc = "insert"])
        /\ UNCHANGED <<users, farmer_assignments, inventory, inventory_transactions,
                       created_qty, schedules>>
        /\ UNCHANGED growthVars

create_farmer_select(w, user, name, email) ==
    create_account_select(w, "create_farmer", "farmer", user, name, email)

create_subscriber_select(w, user, name, email) ==
    create_account_select(w, "create_subscriber", "subscriber", user, name, email)

\* table("users").insert(row).execute().  The schema of the users table is not part
\* of the repository: the store adds the row, or, if it holds a unique constraint on
\* email, it refuses a row whose e-mail is stored and the call ends with 500.
insert_user(w, op, failure) ==
    /\ req[w].op = op /\ req[w].pc = "insert"
    /\ \/ /\ users' = Append(users, req[w].new_user)
          /\ req' = [req EXCEPT ![w] = Finish(@, 200, "")]
       \/ /\ Existing(req[w].new_user.email)
          /\ req' = [req EXCEPT ![w] = Finish(@, 500, failure)]
          /\ UNCHANGED users
    /\ UNCHANGED <<farmer_assignments, inventory, inventory_transactions, created_qty,
                   schedules, calls>>
    /\ UNCHANGED growthVars

\* lines 289-301
register_insert(w) == insert_user(w, "register", "Internal server error")

\* lines 382-383
create_farmer_insert(w) == insert_user(w, "create_farmer", "Internal Server Error")

\* lines 442-443
create_subscriber_insert(w) ==
    insert_user(w, "create_subscriber", "Internal Server Error")

\* one owner is registered, with an address no call of the model uses
InitUsers ==
    /\ today = 0
    /\ growth_cycles = <<>>
    /\ plants = PlantRows
    /\ plots = {1}
    /\ plant_instances = <<>>
    /\ growth_status = NoCall
    /\ read = NoRead
    /\ users = <<[email |-> Email(<<"o">>, "farm.com"), name |-> None,
                  role |-> "owner"]>>
    /\ farmer_assignments = {}
    /\ inventory = <<>>
    /\ inventory_transactions = <<>>
    /\ created_qty = <<>>
    /\ schedules = <<>>
    /\ req = [w \in Workers |-> AccountRequest("none", 0, <<>>)]
    /\ calls = 0

NextUsers ==
    \/ \E w \in Workers, email \in Emails, name \in {None},
          role \in {"owner", "subscriber"} :
           register_select(w, email, name, role)
    \/ \E w \in Workers, user \in DOMAIN users, name \in Names,
          email \in {None} \cup {Some(e) : e \in Emails} :
           create_farmer_select(w, user, name, email)
    \/ \E w \in Workers, user \in DOMAIN users, name \in Names,
          email \in {None} \cup {Some(e) : e \in Emails} :
           create_subscriber_select(w, user, name, email)
    \/ \E w \in Workers : register_insert(w)
    \/ \E w \in Workers : create_farmer_insert(w)
    \/ \E w \in Workers : create_subscriber_insert(w)

SpecUsers == InitUsers /\ [][NextUsers]_vars

----------------------------------------------------------------------------
(* Properties of the inventory ledger and of task completion (under Spec) *)

Done(w, op) == req[w].op = op /\ req[w].pc = "done"

\* worker w starts a request in this step
Starts(w) == calls' = calls + 1 /\ req'[w].n = calls'

\* the inventory_transactions rows of an item
RowsOf(inventory_id) ==
    {k \in 1..Len(inventory_transactions) :
        inventory_transactions[k].inventory_id = inventory_id}

\* C1: in every reachable state, under any interleaving of update_inventory and
\* complete_schedule_task requests, the stored quantity of every inventory item
\* is >= 0 (items are created with quantity >= 0).
C1_QuantityNeverNegative ==
    \A i \in 1..Len(inventory) : inventory[i].quantity >= 0

\* two concurrent decrements of the same item that read the same quantity have both
\* been written
C1_Witness ==
    \E a, b \in Workers :
        /\ a # b /\ Concurrent(a, b)
        /\ Done(a, "update_inventory") /\ Done(b, "update_inventory")
        /\ req[a].code = 200 /\ req[b].code = 200
        /\ req[a].id = req[b].id /\ req[a].current_qty = req[b].current_qty
        /\ req[a].quantity < 0 /\ req[b].quantity < 0

\* C2: of two concurrent update_inventory calls on the same item with deltas d1, d2
\* such that quantity+d1 >= 0, quantity+d2 >= 0 and quantity+d1+d2 < 0, exactly one
\* succeeds and the other fails with "Insufficient inventory".  `quantity` is what
\* the first of them read; the second read it too, or read what the first wrote;
\* no third adjustment of the item took place.
C2_ExactlyOneSucceeds ==
    \A a, b \in Workers :
        ( /\ a # b /\ Concurrent(a, b)
          /\ Done(a, "update_inventory") /\ Done(b, "update_inventory")
          /\ req[a].code \in {200, 400} /\ req[b].code \in {200, 400}
          /\ req[a].id = req[b].id
          /\ req[a].n < req[b].n
          /\ req[b].current_qty \in {req[a].current_qty,
                                     req[a].current_qty + req[a].quantity}
          /\ req[a].current_qty + req[a].quantity >= 0
          /\ req[a].current_qty + req[b].quantity >= 0
          /\ req[a].current_qty + req[a].quantity + req[b].quantity < 0
          /\ Cardinality(RowsOf(req[a].id)) <= 2 )
        => \E ok, ko \in {a, b} :
              /\ ok # ko
              /\ req[ok].code = 200
              /\ req[ko].code = 400 /\ req[ko].detail = "Insufficient inventory"

\* the inventory items whose unit is the unit of task t
MatchingItems(t) ==
    {i \in 1..Len(inventory) : Some(inventory[i].unit) = schedules[t].unit}

\* worker w takes the last step of a complete_schedule_task request on a task that
\* carries a quantity and a unit
CompletesTask(w) ==
    /\ req[w].op = "complete_schedule_task" /\ req[w].pc = "update"
    /\ req'[w].pc = "done"
    /\ schedules[req[w].id].quantity_required # None
    /\ schedules[req[w].id].unit # None

\* C3: complete_schedule_task on a schedule with quantity_required and unit, when
\* the inventory item of that unit holds less than quantity_required, fails with
\* InsufficientInventory and leaves inventory, the transaction log and the schedule
\* unchanged.
C3_InsufficientAborts ==
    [][\A w \in Workers :
         ( /\ CompletesTask(w)
           /\ MatchingItems(req[w].id) # {}
           /\ \A i \in MatchingItems(req[w].id) :
                  inventory[i].quantity < schedules[req[w].id].quantity_required[1] )
         => /\ req'[w].code = 400
            /\ req'[w].detail = "Insufficient inventory"
            /\ UNCHANGED <<inventory, inventory_transactions, schedules>>]_vars

\* C4: when complete_schedule_task succeeds on a schedule with quantity_required and
\* unit and the inventory item of that unit holds at least quantity_required, the
\* item's quantity is its old quantity minus quantity_required, one inventory
\* transaction with change = -quantity_required and the schedule as related schedule
\* is appended, and the schedule's status is terminal.
C4_CompletionDeducts ==
    [][\A w \in Workers :
         ( /\ CompletesTask(w)
           /\ req'[w].code = 200
           /\ MatchingItems(req[w].id) # {}
           /\ \A i \in MatchingItems(req[w].id) :
                  inventory[i].quantity >= schedules[req[w].id].quantity_required[1] )
         => LET t == req[w].id
                required == schedules[t].quantity_required[1]
            IN  /\ \E i \in MatchingItems(t) :
                       /\ inventory'[i].quantity = inventory[i].quantity - required
                       /\ Len(inventory_transactions') = Len(inventory_transactions) + 1
                       /\ LET row == inventory_transactions'[Len(inventory_transactions')]
                          IN  /\ row.inventory_id = i
                              /\ row.change = -required
                              /\ row.related_schedule = Some(t)
                /\ schedules'[t].status \in {"done", "completed"}]_vars

\* worker w takes the last step of a complete_schedule_task request on task t that
\* ran concurrently with no other request: whatever completed t did so before it began
LaterCompletion(w, t) ==
    /\ req[w].op = "complete_schedule_task" /\ req[w].pc = "update"
    /\ req'[w].pc = "done"
    /\ req[w].id = t
    /\ \A u \in Workers \ {w} : ~Concurrent(w, u)

\* C5: once complete_schedule_task has succeeded on a task, no step returns the task
\* to pending, and a later complete_schedule_task call on the same task changes
\* neither the schedule record (status, completion notes) nor the inventory.
C5_CompletedOnce ==
    [][\A t \in DOMAIN schedules :
         schedules[t].status # "pending"
         => /\ schedules'[t].status # "pending"
            /\ \A w \in Workers :
                   LaterCompletion(w, t)
                   => schedules'[t] = schedules[t] /\ inventory' = inventory]_vars

\* C6: update_inventory on an existing item with current quantity + delta < 0 fails
\* with "Insufficient inventory" in the step that read the item, with the item's
\* quantity and the transaction log as they were.
C6_InsufficientWritesNothing ==
    [][\A w \in Workers :
         ( /\ Starts(w)
           /\ req'[w].op = "update_inventory"
           /\ users[req'[w].user].role = "owner"
           /\ req'[w].id \in 1..Len(inventory)
           /\ inventory[req'[w].id].quantity + req'[w].quantity < 0 )
         => /\ req'[w].pc = "done"
            /\ req'[w].code = 400
            /\ req'[w].detail = "Insufficient inventory"
            /\ req'[w].new_quantity = None
            /\ UNCHANGED <<inventory, inventory_transactions>>]_vars

C6_Witness ==
    \E w \in Workers :
        /\ Done(w, "update_inventory")
        /\ req[w].code = 400 /\ req[w].detail = "Insufficient inventory"
        /\ req[w].current_qty + req[w].quantity < 0
        /\ inventory[req[w].id].quantity = req[w].current_qty

\* C7: a successful update_inventory with delta d and reason r reads the item's
\* quantity q, stores q + d, appends exactly one inventory_transactions row, for that
\* item with change = d and reason = r, and returns new_quantity = q + d; no other
\* step of the request touches the log.
C7_AdjustWritesQuantityAndRow ==
    [][\A w \in Workers :
         /\ ( Starts(w) /\ req'[w].op = "update_inventory" /\ req'[w].pc = "update" )
            => /\ req'[w].current_qty = inventory[req'[w].id].quantity
               /\ UNCHANGED <<inventory, inventory_transactions>>
         /\ ( req[w].op = "update_inventory" /\ req[w].pc = "update"
              /\ req'[w].pc # "update" )
            => /\ req'[w].pc = "insert"
               /\ inventory' = [inventory EXCEPT ![req[w].id].quantity =
                                                     req[w].current_qty + req[w].quantity]
               /\ UNCHANGED inventory_transactions
         /\ ( req[w].op = "update_inventory" /\ req[w].pc = "insert"
              /\ req'[w].pc # "insert" )
            => /\ req'[w].pc = "done" /\ req'[w].code = 200
               /\ req'[w].new_quantity = Some(req[w].current_qty + req[w].quantity)
               /\ inventory_transactions' =
                      Append(inventory_transactions,
                             [inventory_id |-> req[w].id, change |-> req[w].quantity,
                              reason |-> req[w].text[1], related_schedule |-> None])
               /\ UNCHANGED inventory]_vars

\* a decrement has succeeded: the item holds what the request returned and the log
\* ends with its row
C7_Witness ==
    \E w \in Workers :
        /\ Done(w, "update_inventory") /\ req[w].code = 200
        /\ req[w].quantity < 0
        /\ req[w].new_quantity = Some(inventory[req[w].id].quantity)
        /\ Len(inventory_transactions) > 0
        /\ inventory_transactions[Len(inventory_transactions)].change = req[w].quantity

\* worker w takes a step of the complete_schedule_task request it is serving
StepsCompletion(w) ==
    /\ req[w].op = "complete_schedule_task" /\ Running(w)
    /\ req'[w].pc # req[w].pc

\* the plot of the plant instance of a task
PlotOfTask(task_id) == plant_instances[schedules[task_id].plant_instance_id].plot_id

\* C18: a complete_schedule_task call by a farmer on a task whose plant instance is
\* in a plot with no farmer_assignments row for that farmer writes nothing to
\* schedules and ends with 403; a call by an owner on a stored task is not rejected
\* and ends with 200 and the task completed.
C18_FarmerOnlyAssigned ==
    [][\A w \in Workers :
         /\ ( /\ Starts(w) /\ req'[w].op = "complete_schedule_task"
              /\ req'[w].id \in DOMAIN schedules )
            => /\ UNCHANGED schedules
               /\ users[req'[w].user].role = "owner" => req'[w].pc = "update"
               /\ users[req'[w].user].role = "farmer" => req'[w].pc # "done"
         /\ ( /\ StepsCompletion(w)
              /\ users[req[w].user].role = "farmer"
              /\ <<req[w].user, PlotOfTask(req[w].id)>> \notin farmer_assignments )
            => /\ UNCHANGED schedules
               /\ req'[w].pc = "done" => req'[w].code = 403
         /\ ( StepsCompletion(w) /\ users[req[w].user].role = "owner" )
            => /\ req'[w].pc = "done" /\ req'[w].code = 200
               /\ schedules'[req[w].id].status = "completed"]_vars

\* farmer1, who is assigned to plot 1 only, has been refused a task of plot 2, which
\* is still pending
C18_Witness ==
    \E w \in Workers :
        /\ Done(w, "complete_schedule_task")
        /\ req[w].id \in DOMAIN schedules
        /\ users[req[w].user].role = "farmer"
        /\ \E assignment \in farmer_assignments : assignment[1] = req[w].user
        /\ <<req[w].user, PlotOfTask(req[w].id)>> \notin farmer_assignments
        /\ req[w].code = 403
        /\ req[w].detail = "Not authorized to complete this task"
        /\ schedules[req[w].id].status = "pending"

\* C20: no step of a complete_schedule_task call by a user whose role is subscriber
\* changes a schedule record.
C20_SubscriberChangesNothing ==
    [][\A w \in Workers :
         /\ ( /\ Starts(w) /\ req'[w].op = "complete_schedule_task"
              /\ users[req'[w].user].role = "subscriber" )
            => UNCHANGED schedules
         /\ ( StepsCompletion(w) /\ users[req[w].user].role = "subscriber" )
            => UNCHANGED schedules]_vars

\* the sum of the change values of the first k inventory_transactions rows that
\* belong to the item
RECURSIVE SumOfChanges(_, _)
SumOfChanges(inventory_id, k) ==
    IF k = 0 THEN 0
    ELSE SumOfChanges(inventory_id, k - 1)
             + ( IF inventory_transactions[k].inventory_id = inventory_id
                 THEN inventory_transactions[k].change ELSE 0 )

\* no update_inventory request is between its select and its response
NoAdjustmentInProgress ==
    \A w \in Workers : ~(req[w].op = "update_inventory" /\ Running(w))

\* C19: in every state where no adjustment is in progress, the stored quantity of
\* every inventory item is its quantity at creation plus the sum of the change values
\* of all its inventory_transactions rows.
C19_LedgerConsistent ==
    NoAdjustmentInProgress
    => \A i \in 1..Len(inventory) :
           inventory[i].quantity
               = created_qty[i] + SumOfChanges(i, Len(inventory_transactions))

----------------------------------------------------------------------------
(* Properties of the plant-instance reads (under SpecInstances) *)

HasCycle(row) ==
    /\ plants[row.plant_id].growth_cycle_id # None
    /\ plants[row.plant_id].growth_cycle_id[1] \in DOMAIN growth_cycles

\* C8: every read of a plant instance, by list_plant_instances or by
\* get_plant_instance, returns the growth status computed for the date of the read:
\* for an instance whose plant has a growth cycle, days_since_planting is the date of
\* the read minus the planting date, and the stage is the stage of that day.
C8_ReadsRecompute ==
    ( read.op \in {"list_plant_instances", "get_plant_instance"} /\ read.code = 200 )
    => \A k \in 1..Len(read.body) :
          LET row == read.body[k]
              cycle == growth_cycles[plants[row.plant_id].growth_cycle_id[1]]
              days == read.on - ParseDate(row.planted_on)
          IN  HasCycle(row)
              => /\ row.days_since_planting = Some(days)
                 /\ row.current_growth_stage = Some(Stage(days, cycle))
                 /\ row.expected_harvest_date =
                        Some(DateStr(ParseDate(row.planted_on) + cycle.total_growth_days))

----------------------------------------------------------------------------
(* Properties of the growth clock (under SpecClock) *)

\* calculate_growth_status has been applied to a stored growth cycle
Calculated == growth_status.result.stage # None

CalcCycle == growth_cycles[growth_status.growth_cycle_id[1]]

CalcDays == growth_status.on - growth_status.planted_on

CalcStage == growth_status.result.stage[1]

\* the stage of day d of a cycle with durations g, v, f, as the specification gives it
StageIs(stage, d, g, v, f) ==
    /\ (stage = "germination") = (d <= g)
    /\ (stage = "vegetative") = (d > g /\ d <= g + v)
    /\ (stage = "flowering") = (d > g + v /\ d <= g + v + f)
    /\ (stage = "fruiting") = (d > g + v + f)

\* C9 as stated: the stage is germination if d <= g, else vegetative if d <= g+v,
\* else flowering if d <= g+v+f, else fruiting; fruiting is returned for every d
\* beyond total_growth_days; d is the reference date minus the planting date.
C9_Original ==
    Calculated =>
        /\ growth_status.result.days_since = Some(CalcDays)
        /\ StageIs(CalcStage, CalcDays, CalcCycle.germination_days,
                   CalcCycle.vegetative_days, CalcCycle.flowering_days)
        /\ CalcDays > CalcCycle.total_growth_days => CalcStage = "fruiting"

\* C9 amended: as C9, but fruiting is returned for every d beyond total_growth_days
\* only when total_growth_days >= g+v+f.
C9_StageCascade ==
    Calculated =>
        /\ growth_status.result.days_since = Some(CalcDays)
        /\ StageIs(CalcStage, CalcDays, CalcCycle.germination_days,
                   CalcCycle.vegetative_days, CalcCycle.flowering_days)
        /\ ( /\ CalcDays > CalcCycle.total_growth_days
             /\ CalcCycle.total_growth_days >= CalcCycle.germination_days
                    + CalcCycle.vegetative_days + CalcCycle.flowering_days )
           => CalcStage = "fruiting"

\* a day beyond total_growth_days of a consistent cycle with three stages of
\* positive length
C9_Witness ==
    /\ Calculated
    /\ CalcCycle.germination_days > 0 /\ CalcCycle.vegetative_days > 0
    /\ CalcCycle.flowering_days > 0
    /\ CalcCycle.total_growth_days >= CalcCycle.germination_days
           + CalcCycle.vegetative_days + CalcCycle.flowering_days
    /\ CalcDays > CalcCycle.total_growth_days
    /\ CalcStage = "fruiting"

\* C10 as stated: for non-negative durations the stage is germination when
\* d = germination_days and vegetative when d = germination_days + 1.
C10_Original ==
    Calculated =>
        /\ CalcDays = CalcCycle.germination_days => CalcStage = "germination"
        /\ CalcDays = CalcCycle.germination_days + 1 => CalcStage = "vegetative"

\* C10 amended: the stage is germination when d = germination_days, and vegetative
\* when d = germination_days + 1 and vegetative_days >= 1.
C10_Boundary ==
    Calculated =>
        /\ CalcDays = CalcCycle.germination_days => CalcStage = "germination"
        /\ ( CalcDays = CalcCycle.germination_days + 1 /\ CalcCycle.vegetative_days >= 1 )
           => CalcStage = "vegetative"

C10_Witness ==
    /\ Calculated
    /\ CalcCycle.germination_days > 0
    /\ CalcCycle.vegetative_days >= 1
    /\ CalcDays = CalcCycle.germination_days + 1
    /\ CalcStage = "vegetative"

\* the place of a stage in the order germination < vegetative < flowering < fruiting;
\* 0 for anything else
StageRank(stage) ==
    CASE stage = "germination" -> 1
      [] stage = "vegetative" -> 2
      [] stage = "flowering" -> 3
      [] stage = "fruiting" -> 4
      [] OTHER -> 0

\* the stage calculate_growth_status gives the planting date of the last call on
\* reference date t
StageOn(t) == Stage(t - growth_status.planted_on, CalcCycle)

\* C11: the returned stage is one of germination, vegetative, flowering, fruiting;
\* for every pair of days-since-planting values d1 <= d2 of the cycle the stage of
\* d1 is not later than the stage of d2 in that order; and on every reference date
\* after the one of the call the stage of the same planting is not earlier than the
\* returned one.
C11_StageMonotone ==
    Calculated =>
        /\ StageRank(CalcStage) \in 1..4
        /\ \A d1, d2 \in (-MaxDay)..(MaxDay + 1) :
               d1 <= d2 => StageRank(Stage(d1, CalcCycle)) <= StageRank(Stage(d2, CalcCycle))
        /\ \A t \in growth_status.on..(MaxDay + 1) :
               StageRank(CalcStage) <= StageRank(StageOn(t))

\* a call made on the last day of the vegetative stage of a cycle whose stages all
\* last at least a day: earlier days are in germination, later ones in flowering
C11_Witness ==
    /\ Calculated
    /\ CalcCycle.germination_days > 0 /\ CalcCycle.vegetative_days > 0
    /\ CalcCycle.flowering_days > 0
    /\ CalcDays = CalcCycle.germination_days + CalcCycle.vegetative_days
    /\ CalcStage = "vegetative"
    /\ StageOn(growth_status.on + 1) = "flowering"
    /\ Stage(0, CalcCycle) = "germination"

\* C12: the expected harvest date calculate_growth_status returns is the planting
\* date plus total_growth_days of the cycle, whatever the stage durations and the
\* reference date are.
C12_HarvestDate ==
    Calculated =>
        growth_status.result.expected_harvest
            = Some(growth_status.planted_on + CalcCycle.total_growth_days)

\* a call on a day other than the planting day, for a cycle whose total_growth_days
\* is not the sum of its stage durations
C12_Witness ==
    /\ Calculated
    /\ growth_status.on # growth_status.planted_on
    /\ growth_status.planted_on > 0
    /\ CalcCycle.total_growth_days > 0
    /\ CalcCycle.total_growth_days # CalcCycle.germination_days
           + CalcCycle.vegetative_days + CalcCycle.flowering_days
           + CalcCycle.fruiting_days
    /\ growth_status.result.expected_harvest
           = Some(growth_status.planted_on + CalcCycle.total_growth_days)

----------------------------------------------------------------------------
(* Properties of plant-instance creation (under SpecInstances) *)

\* the three growth fields of a growth status or of a plant-instance row are all null
AllNull(stage, days, harvest) == stage = None /\ days = None /\ harvest = None

\* the growth cycle id is null or names no stored growth cycle
NoCycle(growth_cycle_id) ==
    growth_cycle_id = None \/ growth_cycle_id[1] \notin DOMAIN growth_cycles

\* C13: calculate_growth_status returns None for stage, days-since and expected
\* harvest together when the growth cycle id is null or names no stored growth cycle,
\* and all three or none in every case; create_plant_instance by an owner, for a
\* stored plot and a stored plant without such a cycle, answers 200 and inserts the
\* instance with the three fields null.
C13_NoCycleNoStatus ==
    [][/\ \A planted_on \in 0..MaxPlanted, growth_cycle_id \in {None, Some(1), Some(2)} :
              LET st == calculate_growth_status(planted_on, growth_cycle_id)
              IN  /\ NoCycle(growth_cycle_id) => st = NoStatus
                  /\ \/ AllNull(st.stage, st.days_since, st.expected_harvest)
                     \/ st.stage # None /\ st.days_since # None
                            /\ st.expected_harvest # None
       /\ \A user \in DOMAIN users, plot_id \in plots, plant_id \in DOMAIN plants,
             planted_on \in 0..MaxPlanted :
              ( /\ create_plant_instance(user, plot_id, plant_id, planted_on)
                /\ users[user].role = "owner"
                /\ NoCycle(plants[plant_id].growth_cycle_id) )
              => /\ read'.code = 200
                 /\ Len(plant_instances') = Len(plant_instances) + 1
                 /\ LET row == plant_instances'[Len(plant_instances')]
                    IN  /\ row.plot_id = plot_id /\ row.plant_id = plant_id
                        /\ row.planted_on = DateStr(planted_on)
                        /\ AllNull(row.current_growth_stage, row.days_since_planting,
                                   row.expected_harvest_date)
                        /\ read'.body = <<row>>]_vars

\* an instance of plant 3, whose growth cycle id names no stored cycle, has been
\* created with its three growth fields null
C13_Witness ==
    /\ read.op = "create_plant_instance" /\ read.code = 200
    /\ \E i \in 1..Len(plant_instances) :
           /\ plant_instances[i].plant_id = 3
           /\ plants[3].growth_cycle_id # None
           /\ AllNull(plant_instances[i].current_growth_stage,
                      plant_instances[i].days_since_planting,
                      plant_instances[i].expected_harvest_date)
           /\ read.body = <<plant_instances[i]>>

\* the requirement of the plant of a plant-instance row sets the given column and
\* no other
OnlySet(row, column) ==
    LET requirement_id == plants[row.plant_id].requirement_id
    IN  /\ requirement_id # None
        /\ requirement_id[1] \in DOMAIN RequirementRows
        /\ \A c \in DOMAIN RequirementRows[requirement_id[1]] :
               (RequirementRows[requirement_id[1]][c] # None) = (c = column)

\* the value of the column the requirement of the row's plant sets
Required(row, column) == RequirementRows[plants[row.plant_id].requirement_id[1]][column]

\* the schedule rows of a plant instance
TasksOf(instance_id) ==
    {t \in DOMAIN schedules : schedules[t].plant_instance_id = instance_id}

\* the instance has exactly one pending schedule row on each of the given offsets
\* from its planting date, with the given unit, and no other schedule row
ScheduledOn(row, offsets, unit) ==
    /\ Cardinality(TasksOf(row.id)) = Cardinality(offsets)
    /\ \A i \in offsets :
           \E t \in TasksOf(row.id) :
               /\ schedules[t].scheduled_for = DateStr(ParseDate(row.planted_on) + i)
               /\ schedules[t].unit = Some(unit)
               /\ schedules[t].status = "pending"

\* C14: a plant instance created for a plant whose requirement has only water_min_ml
\* set has exactly 30 schedule rows, one with scheduled_for = planted_on + i for each
\* i in 0..29, each with quantity_required = water_min_ml, unit "ml" and status
\* pending.
C14_WaterDaily ==
    \A k \in 1..Len(plant_instances) :
        OnlySet(plant_instances[k], "water_min_ml")
        => /\ ScheduledOn(plant_instances[k], 0..29, "ml")
           /\ \A t \in TasksOf(k) :
                  schedules[t].quantity_required
                      = Required(plant_instances[k], "water_min_ml")

\* C15: a plant instance created for a plant whose requirement has only
\* go_krupa_ml_weekly set has exactly 5 schedule rows, with scheduled_for =
\* planted_on + i for i in {0, 7, 14, 21, 28}, each with unit "ml" and status pending.
C15_GoKrupaWeekly ==
    \A k \in 1..Len(plant_instances) :
        OnlySet(plant_instances[k], "go_krupa_ml_weekly")
        => ScheduledOn(plant_instances[k], {0, 7, 14, 21, 28}, "ml")

\* C16: a plant instance created for a plant whose requirement has only
\* panchagavya_l_per_month set has exactly 1 schedule row, with scheduled_for =
\* planted_on + 30, quantity_required = the monthly value, unit "l" and status
\* pending.
C16_PanchagavyaMonthly ==
    \A k \in 1..Len(plant_instances) :
        OnlySet(plant_instances[k], "panchagavya_l_per_month")
        => /\ ScheduledOn(plant_instances[k], {30}, "l")
           /\ \A t \in TasksOf(k) :
                  schedules[t].quantity_required
                      = Required(plant_instances[k], "panchagavya_l_per_month")

----------------------------------------------------------------------------
(* Properties of the low-stock query (under SpecStock) *)

\* the item is one of the rows of the response
Returned(item) == \E k \in 1..Len(read.body) : read.body[k] = item

\* C17: get_low_stock returns exactly the inventory items whose quantity is <= their
\* reorder_level, each once: an item with quantity = reorder_level is returned, an
\* item with quantity > reorder_level is not.
C17_LowStockInclusive ==
    ( read.op = "get_low_stock" /\ read.code = 200 )
    => /\ \A i \in 1..Len(inventory) :
              Returned(inventory[i])
                  <=> inventory[i].quantity <= inventory[i].reorder_level
       /\ \A k \in 1..Len(read.body) :
              /\ \E i \in 1..Len(inventory) : read.body[k] = inventory[i]
              /\ \A j \in 1..Len(read.body) : read.body[j] = read.body[k] => j = k

\* the query has answered for an item at its reorder level and an item above its
\* reorder level: the first is returned, the second is not
C17_Witness ==
    /\ read.op = "get_low_stock" /\ read.code = 200
    /\ \E i, j \in 1..Len(inventory) :
           /\ inventory[i].quantity = inventory[i].reorder_level
           /\ inventory[i].reorder_level > 0
           /\ inventory[j].quantity > inventory[j].reorder_level
           /\ Returned(inventory[i])
           /\ ~Returned(inventory[j])

----------------------------------------------------------------------------
(* Properties of the user accounts (under SpecUsers) *)

\* C21: in every reachable state, under any interleaving of concurrent register,
\* create_farmer and create_subscriber calls, no two rows of users have the same
\* email.
C21_EmailsUnique ==
    \A i, j \in 1..Len(users) : users[i].email = users[j].email => i = j

====
